---- MODULE Spec2Model ----
(***************************************************************************)
(* The button component of ember-bootstrap.                                *)
(*                                                                         *)
(* Two revisions of the component are modelled side by side:               *)
(*   - the Glimmer component  addon/components/bs-button.js  (state,       *)
(*     handleClick, preventConcurrency, bubble, isDestroyed guard), under  *)
(*     the specification Spec;                                             *)
(*   - the classic component (Ember.Component.extend, textState, toggle,   *)
(*     resetObserver, click with a settlement-registration callback),      *)
(*     under the specification SpecLegacy.                                 *)
(* SpecText and SpecIcon read the text and icon getters of both over every  *)
(* combination of their arguments, SpecLive is the Glimmer component that  *)
(* stays live and whose promises all settle, and SpecBoth drives the two   *)
(* components with the same events.                                        *)
(*                                                                         *)
(* JavaScript values are encoded as strings: "null", "undefined", "true",  *)
(* "false" for the values of optional arguments, "fn" for a function,      *)
(* "object" for a truthy value without a callable `then`, "thenable" for   *)
(* a value whose `then` is a function.                                     *)
(***************************************************************************)
EXTENDS Naturals, FiniteSets, Sequences, TLC

\* Number of promises the onClick callback may hand out during one run.
MaxPromises == 2

PromiseIds == 1..MaxPromises

\* Values the @value argument takes: its default (null) and a supplied one.
Values == {"null", "v1"}

\* Values of an optional boolean argument (@_disabled, reset).
OptionalBooleans == {"null", "true", "false"}

\* What the onClick callback can return.
ReturnValues == {"undefined", "object", "thenable"}

VARIABLES
    \* ---- Glimmer component (bs-button.js) ----
    state,               \* @tracked state
    isDestroyed,         \* Component#isDestroyed
    preventConcurrency,  \* @arg preventConcurrency
    bubble,              \* @arg bubble
    _disabled,           \* @arg _disabled
    onClick,             \* @arg onClick
    value,               \* @arg value
    promises,            \* promises returned by onClick: id -> status
    handlers,            \* promises on which handleClick called .then(...)
    ev,                  \* observation of the last handler that ran
    \* ---- classic component (part_000) ----
    textState,           \* textState property
    active,              \* active property
    toggle,              \* toggle property
    reset,               \* reset property
    legacyDestroyed,     \* Ember.Component isDestroyed
    legacyPromises,      \* promises handed to click's callback: id -> status
    fault,               \* an error was raised inside a handler
    legacyEv,            \* observation of the last handler that ran
    \* ---- arguments read by the text and icon getters of both components ----
    defaultText,         \* defaultText
    pendingText,         \* pendingText
    fulfilledText,       \* fulfilledText (bs-button.js)
    resolvedText,        \* resolvedText (part_000)
    rejectedText,        \* rejectedText
    argsIcon,            \* this.args.icon (bs-button.js)
    iconActive,          \* iconActive
    iconInactive,        \* iconInactive
    \* ---- what a read of the getters returned ----
    label,               \* last value read from text (bs-button.js)
    legacyLabel,         \* last value read from text (part_000)
    shownIcon,           \* last value read from icon (bs-button.js)
    legacyShownIcon      \* last value read from icon (part_000)

modernVars == <<state, isDestroyed, preventConcurrency, bubble, _disabled,
                onClick, value, promises, handlers, ev>>
legacyVars == <<textState, active, toggle, reset, legacyDestroyed,
                legacyPromises, fault, legacyEv>>
textArgs == <<defaultText, pendingText, fulfilledText, resolvedText, rejectedText>>
iconArgs == <<argsIcon, iconActive, iconInactive>>
readVars == <<label, legacyLabel, shownIcon, legacyShownIcon>>
renderVars == <<textArgs, iconArgs, readVars>>
vars == <<modernVars, legacyVars, renderVars>>

States == {"default", "pending", "fulfilled", "rejected"}
PromiseStatus == {"none", "pending", "fulfilled", "rejected"}

\* The record kept of a handler run: which handler, the state it found, whether
\* the onClick callback was called and with what, what it returned, whether it
\* threw out of the handler, whether e.stopPropagation() was called, and (for a
\* settlement) the promise and its outcome. A callback that throws is recorded
\* as ret = "throws". For resetObserver, arg is the value assigned to reset and
\* ret the value it had before. For the classic click, arg is the value active
\* had before the click and ret what the receiver of the action passed to the
\* callback.
Ev(op, pre, invoked, arg, ret, threw, stopped, id, outcome) ==
    [op |-> op, pre |-> pre, invoked |-> invoked, arg |-> arg, ret |-> ret,
     threw |-> threw, stopped |-> stopped, id |-> id, outcome |-> outcome]

NoEv == Ev("none", "default", FALSE, "none", "none", FALSE, FALSE, 0, "none")

----------------------------------------------------------------------------
\* Glimmer component: derived properties

isPending == state = "pending"
isFulfilled == state = "fulfilled"
isRejected == state = "rejected"

\* Mutant of isSettled: `and` in place of `or`.
IsSettledBoth == isFulfilled /\ isRejected

\* @or('isFulfilled', 'isRejected')
isSettled == isFulfilled \/ isRejected

\* Mutant of __disabled: the override is ignored.
DisabledIgnoringOverride == isPending /\ preventConcurrency

\* get __disabled()
__disabled ==
    IF _disabled # "null" THEN _disabled = "true"
    ELSE isPending /\ preventConcurrency

\* Mutant of ConcurrencyAdmits: the guard is dropped.
AdmitsAlways == TRUE

\* Mutant of ConcurrencyAdmits: the guard also honours __disabled.
AdmitsUnlessDisabled == ~__disabled

\* `!preventConcurrency || !this.isPending`
ConcurrencyAdmits == ~preventConcurrency \/ ~isPending

\* Mutant of isThenable: any truthy result counts as a promise.
IsTruthyResult(r) == r \in {"object", "thenable"}

\* `promise && typeof promise.then === 'function'`
isThenable(r) == r \in {"object", "thenable"} /\ r = "thenable"

\* Mutant of stopsPropagation: propagation is only stopped for admitted clicks.
StopsOnlyWhenAdmitted == ~bubble /\ ConcurrencyAdmits

\* `if (!this.bubble) e.stopPropagation()`
stopsPropagation == ~bubble

\* Mutant of afterCallback: a thenable result marks the button fulfilled at once.
AfterCallbackFulfilled(st, r, destroyed) ==
    IF isThenable(r) /\ ~destroyed THEN "fulfilled" ELSE st

\* Mutant of afterCallback: isDestroyed is not checked after the callback.
AfterCallbackIgnoringDestroyed(st, r, destroyed) ==
    IF isThenable(r) THEN "pending" ELSE st

\* The state handleClick leaves after the callback returned r.
afterCallback(st, r, destroyed) ==
    IF isThenable(r) /\ ~destroyed THEN "pending" ELSE st

\* Mutant of onRejected: a rejection only applies to a pending button.
OnRejectedIfPending(st, destroyed) ==
    IF ~destroyed /\ st = "pending" THEN "rejected" ELSE st

\* Mutant of onFulfilled: a fulfilment only applies to a pending button.
OnFulfilledIfPending(st, destroyed) ==
    IF ~destroyed /\ st = "pending" THEN "fulfilled" ELSE st

\* The success handler registered by handleClick.
onFulfilled(st, destroyed) == IF ~destroyed THEN "fulfilled" ELSE st

\* Mutant of onRejected: the failure handler does nothing.
OnRejectedIgnored(st, destroyed) == st

\* The failure handler registered by handleClick.
onRejected(st, destroyed) == IF ~destroyed THEN "rejected" ELSE st

Outstanding == {i \in PromiseIds : promises[i] = "pending"}
Unissued == {i \in PromiseIds : promises[i] = "none"}
\* The next promise the callback hands out.
FreshId == CHOOSE i \in Unissued : \A j \in Unissued : i <= j

----------------------------------------------------------------------------
\* Glimmer component: handlers

\* Mutant of handleClickNoCallback: the bubble check runs before the return.
HandleClickNoCallbackStops ==
    /\ ~isDestroyed
    /\ onClick \in {"null", "undefined"}
    /\ ev' = Ev("handleClick", state, FALSE, "none", "none", FALSE,
                stopsPropagation, 0, "none")
    /\ UNCHANGED <<state, isDestroyed, promises, handlers>>

\* handleClick, `onClick === null || onClick === undefined`: plain return.
handleClickNoCallback ==
    /\ ~isDestroyed
    /\ onClick \in {"null", "undefined"}
    /\ ev' = Ev("handleClick", state, FALSE, "none", "none", FALSE, FALSE, 0, "none")
    /\ UNCHANGED <<state, isDestroyed, promises, handlers>>

\* handleClick, callback present but the concurrency guard is closed.
handleClickGated ==
    /\ ~isDestroyed
    /\ onClick = "fn"
    /\ ~ConcurrencyAdmits
    /\ ev' = Ev("handleClick", state, FALSE, "none", "none", FALSE,
                stopsPropagation, 0, "none")
    /\ UNCHANGED <<state, isDestroyed, promises, handlers>>

\* Mutant of handleClickThrows: the state is set to pending before the call.
HandleClickThrowsAfterPending ==
    /\ ~isDestroyed
    /\ onClick = "fn"
    /\ ConcurrencyAdmits
    /\ state' = "pending"
    /\ ev' = Ev("handleClick", state, TRUE, value, "throws", TRUE, FALSE, 0, "none")
    /\ UNCHANGED <<isDestroyed, promises, handlers>>

\* handleClick, the callback throws: the exception leaves handleClick at the
\* call, nothing after it runs.
handleClickThrows ==
    /\ ~isDestroyed
    /\ onClick = "fn"
    /\ ConcurrencyAdmits
    /\ ev' = Ev("handleClick", state, TRUE, value, "throws", TRUE, FALSE, 0, "none")
    /\ UNCHANGED <<state, isDestroyed, promises, handlers>>

\* handleClick, the callback returns r; `destroys` says whether the callback
\* tore the component down before returning.
handleClickReturns(r, destroys) ==
    /\ ~isDestroyed
    /\ onClick = "fn"
    /\ ConcurrencyAdmits
    /\ r = "thenable" => Unissued # {}
    /\ isDestroyed' = destroys
    /\ state' = afterCallback(state, r, destroys)
    /\ promises' = IF r = "thenable"
                   THEN [promises EXCEPT ![FreshId] = "pending"]
                   ELSE promises
    /\ handlers' = IF isThenable(r) /\ ~destroys
                   THEN handlers \cup {FreshId}
                   ELSE handlers
    /\ ev' = Ev("handleClick", state, TRUE, value, r, FALSE, stopsPropagation,
                IF r = "thenable" THEN FreshId ELSE 0, "none")

handleClick ==
    /\ \/ handleClickNoCallback
       \/ handleClickGated
       \/ handleClickThrows
       \/ \E r \in ReturnValues, destroys \in BOOLEAN : handleClickReturns(r, destroys)
    /\ UNCHANGED <<preventConcurrency, bubble, _disabled, onClick, value>>

\* A promise returned by the callback fulfils: the success handler runs if
\* handleClick registered one.
promiseFulfils(i) ==
    /\ promises[i] = "pending"
    /\ promises' = [promises EXCEPT ![i] = "fulfilled"]
    /\ state' = IF i \in handlers THEN onFulfilled(state, isDestroyed) ELSE state
    /\ ev' = Ev("settle", state, FALSE, "none", "none", FALSE, FALSE, i, "fulfilled")
    /\ UNCHANGED <<isDestroyed, handlers, preventConcurrency, bubble, _disabled,
                   onClick, value>>

\* A promise returned by the callback rejects.
promiseRejects(i) ==
    /\ promises[i] = "pending"
    /\ promises' = [promises EXCEPT ![i] = "rejected"]
    /\ state' = IF i \in handlers THEN onRejected(state, isDestroyed) ELSE state
    /\ ev' = Ev("settle", state, FALSE, "none", "none", FALSE, FALSE, i, "rejected")
    /\ UNCHANGED <<isDestroyed, handlers, preventConcurrency, bubble, _disabled,
                   onClick, value>>

\* @action resetState()
resetState ==
    /\ ~isDestroyed
    /\ state' = "default"
    /\ ev' = Ev("resetState", state, FALSE, "none", "none", FALSE, FALSE, 0, "none")
    /\ UNCHANGED <<isDestroyed, promises, handlers, preventConcurrency, bubble,
                   _disabled, onClick, value>>

\* The component is torn down.
destroy ==
    /\ ~isDestroyed
    /\ isDestroyed' = TRUE
    /\ ev' = Ev("destroy", state, FALSE, "none", "none", FALSE, FALSE, 0, "none")
    /\ UNCHANGED <<state, promises, handlers, preventConcurrency, bubble,
                   _disabled, onClick, value>>

----------------------------------------------------------------------------
\* Classic component (Ember.Component.extend)

LegacyStates == {"default", "pending", "resolved", "rejected"}

\* What the handler of the sent action does with the callback it receives:
\* never calls it, or calls it with undefined, a truthy non-promise, a promise.
CallbackUses == {"nocall", "undefined", "object", "thenable"}

\* What Ember's set() does on a destroyed object, by Ember version and build:
\* raise "calling set on destroyed object", return without writing, or write.
DestroyedSetOutcomes == {"assert", "ignored", "written"}

LegacyOutstanding == {i \in PromiseIds : legacyPromises[i] = "pending"}
LegacyUnissued == {i \in PromiseIds : legacyPromises[i] = "none"}
LegacyFreshId == CHOOSE i \in LegacyUnissued : \A j \in LegacyUnissued : i <= j

\* JavaScript truthiness of an encoded value.
isTruthy(v) == v \notin {"null", "undefined", "false", ""}

\* Mutant of resetRequested: the observer only acts when the value changed.
ResetRequestedOnChange(v) == isTruthy(v) /\ v # reset

\* resetObserver: `if (this.get('reset'))`, with v the value just assigned.
resetRequested(v) == isTruthy(v)

\* resetState: this.set('textState', 'default')
legacyResetState(st) == "default"

\* this.set('textState', v) on the component, destroyed or not.
legacySet(st, v, destroyed, outcome) ==
    IF destroyed /\ outcome # "written" THEN st ELSE v

\* set() raised its destroyed-object assertion.
legacySetFaults(destroyed, outcome) == destroyed /\ outcome = "assert"

\* Mutant of afterToggle: active is set instead of flipped.
AfterToggleSets(a) == IF toggle THEN TRUE ELSE a

\* `if (this.get('toggle')) this.toggleProperty('active')`
afterToggle(a) == IF toggle THEN ~a ELSE a

\* click(evt): toggleProperty('active') when toggle is set, then
\* sendAction('action', value, evt, callback); `use` is what the receiver of
\* the action does with callback before sendAction returns.
click(use) ==
    /\ ~legacyDestroyed
    /\ use = "thenable" => LegacyUnissued # {}
    /\ active' = afterToggle(active)
    /\ textState' = IF use \in {"object", "thenable"} THEN "pending" ELSE textState
    /\ legacyPromises' = IF use = "thenable"
                         THEN [legacyPromises EXCEPT ![LegacyFreshId] = "pending"]
                         ELSE legacyPromises
    \* promise.then on a truthy value without `then` is a TypeError
    /\ fault' = (fault \/ use = "object")
    /\ legacyEv' = Ev("click", textState, TRUE, IF active THEN "true" ELSE "false",
                      use, use = "object", FALSE,
                      IF use = "thenable" THEN LegacyFreshId ELSE 0, "none")
    /\ UNCHANGED <<toggle, reset, legacyDestroyed>>

\* The promise passed to callback resolves: that.set('textState', 'resolved').
legacyResolves(i, outcome) ==
    /\ legacyPromises[i] = "pending"
    /\ legacyDestroyed \/ outcome = "written"
    /\ legacyPromises' = [legacyPromises EXCEPT ![i] = "fulfilled"]
    /\ textState' = legacySet(textState, "resolved", legacyDestroyed, outcome)
    /\ fault' = (fault \/ legacySetFaults(legacyDestroyed, outcome))
    /\ legacyEv' = Ev("settle", textState, FALSE, "none", "none",
                      legacySetFaults(legacyDestroyed, outcome), FALSE, i, "resolved")
    /\ UNCHANGED <<active, toggle, reset, legacyDestroyed>>

\* The promise passed to callback rejects: that.set('textState', 'rejected').
legacyRejects(i, outcome) ==
    /\ legacyPromises[i] = "pending"
    /\ legacyDestroyed \/ outcome = "written"
    /\ legacyPromises' = [legacyPromises EXCEPT ![i] = "rejected"]
    /\ textState' = legacySet(textState, "rejected", legacyDestroyed, outcome)
    /\ fault' = (fault \/ legacySetFaults(legacyDestroyed, outcome))
    /\ legacyEv' = Ev("settle", textState, FALSE, "none", "none",
                      legacySetFaults(legacyDestroyed, outcome), FALSE, i, "rejected")
    /\ UNCHANGED <<active, toggle, reset, legacyDestroyed>>

\* The reset property is set to v, or notifyPropertyChange('reset') is called
\* with its value unchanged; resetObserver runs.
resetObserver(v) ==
    /\ ~legacyDestroyed
    /\ reset' = v
    /\ textState' = IF resetRequested(v) THEN legacyResetState(textState)
                    ELSE textState
    /\ legacyEv' = Ev("resetObserver", textState, FALSE, v, reset, FALSE, FALSE,
                      0, "none")
    /\ UNCHANGED <<active, toggle, legacyDestroyed, legacyPromises, fault>>

\* The classic component is destroyed.
legacyDestroy ==
    /\ ~legacyDestroyed
    /\ legacyDestroyed' = TRUE
    /\ legacyEv' = Ev("destroy", textState, FALSE, "none", "none", FALSE, FALSE,
                      0, "none")
    /\ UNCHANGED <<textState, active, toggle, reset, legacyPromises, fault>>

----------------------------------------------------------------------------
\* The text and icon getters

\* Values a text argument takes: not passed, the empty string, a label.
TextValues(labelText) == {"undefined", "", labelText}

\* this.args[`${this.state}Text`]
stateText(st) ==
    CASE st = "default" -> defaultText
      [] st = "pending" -> pendingText
      [] st = "fulfilled" -> fulfilledText
      [] st = "rejected" -> rejectedText

\* Mutant of text: no fallback to defaultText.
TextWithoutFallback == stateText(state)

\* get text() of bs-button.js: `this.args[...] || this.args.defaultText`
text == IF isTruthy(stateText(state)) THEN stateText(state) ELSE defaultText

\* this.get(textState + 'Text') of part_000
legacyStateText(st) ==
    CASE st = "default" -> defaultText
      [] st = "pending" -> pendingText
      [] st = "resolved" -> resolvedText
      [] st = "rejected" -> rejectedText

\* Ember's getWithDefault: the default replaces an undefined value only.
getWithDefault(v, default) == IF v = "undefined" THEN default ELSE v

\* text of part_000
legacyText == getWithDefault(legacyStateText(textState), defaultText)

\* The template reads text of bs-button.js.
readText ==
    /\ label' = text
    /\ UNCHANGED <<legacyLabel, shownIcon, legacyShownIcon>>

\* The template reads text of part_000.
readLegacyText ==
    /\ legacyLabel' = legacyText
    /\ UNCHANGED <<label, shownIcon, legacyShownIcon>>

\* Values the icon argument takes: not passed, null, the empty string, a class.
IconOverrides == {"undefined", "null", "", "custom-icon"}

\* Mutant of icon: the active flag is not consulted.
IconIgnoringActive == IF isTruthy(argsIcon) THEN argsIcon ELSE iconInactive

\* get icon() of bs-button.js:
\* `this.args.icon || (this.active ? this.iconActive : this.iconInactive)`
icon ==
    IF isTruthy(argsIcon) THEN argsIcon
    ELSE IF active THEN iconActive ELSE iconInactive

\* icon of part_000: computed from active alone.
legacyIcon == IF active THEN iconActive ELSE iconInactive

\* The template reads icon of bs-button.js.
readIcon ==
    /\ shownIcon' = icon
    /\ UNCHANGED <<label, legacyLabel, legacyShownIcon>>

\* The template reads icon of part_000.
readLegacyIcon ==
    /\ legacyShownIcon' = legacyIcon
    /\ UNCHANGED <<label, legacyLabel, shownIcon>>

----------------------------------------------------------------------------
\* Initial states

ModernFresh ==
    /\ state = "default"
    /\ isDestroyed = FALSE
    /\ promises = [i \in PromiseIds |-> "none"]
    /\ handlers = {}
    /\ ev = NoEv

ModernDefaults ==
    /\ preventConcurrency = TRUE
    /\ bubble = FALSE
    /\ _disabled = "null"
    /\ onClick = "null"
    /\ value = "null"

LegacyFresh ==
    /\ textState = "default"
    /\ reset = "null"
    /\ legacyDestroyed = FALSE
    /\ legacyPromises = [i \in PromiseIds |-> "none"]
    /\ fault = FALSE
    /\ legacyEv = NoEv

LegacyDefaults ==
    /\ active = FALSE
    /\ toggle = FALSE

\* No text argument is passed.
TextDefaults ==
    /\ defaultText = "undefined"
    /\ pendingText = "undefined"
    /\ fulfilledText = "undefined"
    /\ resolvedText = "undefined"
    /\ rejectedText = "undefined"

\* No icon argument is passed.
IconDefaults ==
    /\ argsIcon = "undefined"
    /\ iconActive = "null"
    /\ iconInactive = "null"

\* Neither getter has been read.
NothingRead ==
    /\ label = "unread"
    /\ legacyLabel = "unread"
    /\ shownIcon = "unread"
    /\ legacyShownIcon = "unread"

Init ==
    /\ ModernFresh
    /\ preventConcurrency \in BOOLEAN
    /\ bubble \in BOOLEAN
    /\ _disabled \in OptionalBooleans
    /\ onClick \in {"null", "undefined", "fn"}
    /\ value \in Values
    /\ LegacyFresh
    /\ LegacyDefaults
    /\ TextDefaults
    /\ IconDefaults
    /\ NothingRead

Next ==
    \/ handleClick /\ UNCHANGED <<legacyVars, renderVars>>
    \/ \E i \in PromiseIds : promiseFulfils(i) /\ UNCHANGED <<legacyVars, renderVars>>
    \/ \E i \in PromiseIds : promiseRejects(i) /\ UNCHANGED <<legacyVars, renderVars>>
    \/ resetState /\ UNCHANGED <<legacyVars, renderVars>>
    \/ destroy /\ UNCHANGED <<legacyVars, renderVars>>

Spec == Init /\ [][Next]_vars

InitLegacy ==
    /\ LegacyFresh
    /\ active \in BOOLEAN
    /\ toggle \in BOOLEAN
    /\ ModernFresh
    /\ ModernDefaults
    /\ TextDefaults
    /\ argsIcon = "undefined"
    /\ iconActive \in {"null", "star-filled"}
    /\ iconInactive \in {"null", "star-empty"}
    /\ NothingRead

NextLegacy ==
    \/ \E use \in CallbackUses :
          click(use) /\ UNCHANGED <<modernVars, renderVars>>
    \/ \E i \in PromiseIds, outcome \in DestroyedSetOutcomes :
          legacyResolves(i, outcome) /\ UNCHANGED <<modernVars, renderVars>>
    \/ \E i \in PromiseIds, outcome \in DestroyedSetOutcomes :
          legacyRejects(i, outcome) /\ UNCHANGED <<modernVars, renderVars>>
    \/ \E v \in OptionalBooleans :
          resetObserver(v) /\ UNCHANGED <<modernVars, renderVars>>
    \/ legacyDestroy /\ UNCHANGED <<modernVars, renderVars>>

SpecLegacy == InitLegacy /\ [][NextLegacy]_vars

\* Every state and every combination of text arguments.
InitText ==
    /\ state \in States
    /\ isDestroyed = FALSE
    /\ promises = [i \in PromiseIds |-> "none"]
    /\ handlers = {}
    /\ ev = NoEv
    /\ ModernDefaults
    /\ textState \in LegacyStates
    /\ reset = "null"
    /\ legacyDestroyed = FALSE
    /\ legacyPromises = [i \in PromiseIds |-> "none"]
    /\ fault = FALSE
    /\ legacyEv = NoEv
    /\ LegacyDefaults
    /\ defaultText \in TextValues("Save")
    /\ pendingText \in TextValues("Saving")
    /\ fulfilledText \in TextValues("Saved")
    /\ resolvedText \in TextValues("Done")
    /\ rejectedText \in TextValues("Failed")
    /\ IconDefaults
    /\ NothingRead

NextText ==
    \/ readText /\ UNCHANGED <<modernVars, legacyVars, textArgs, iconArgs>>
    \/ readLegacyText /\ UNCHANGED <<modernVars, legacyVars, textArgs, iconArgs>>

SpecText == InitText /\ [][NextText]_vars

\* Every combination of icon arguments, active or not.
InitIcon ==
    /\ ModernFresh
    /\ ModernDefaults
    /\ LegacyFresh
    /\ active \in BOOLEAN
    /\ toggle = FALSE
    /\ TextDefaults
    /\ argsIcon \in IconOverrides
    /\ iconActive \in {"null", "star-filled"}
    /\ iconInactive \in {"null", "star-empty"}
    /\ NothingRead

NextIcon ==
    \/ readIcon /\ UNCHANGED <<modernVars, legacyVars, textArgs, iconArgs>>
    \/ readLegacyIcon /\ UNCHANGED <<modernVars, legacyVars, textArgs, iconArgs>>

SpecIcon == InitIcon /\ [][NextIcon]_vars

\* Both components receive the same events. preventConcurrency is false, so
\* that handleClick admits every click, as click does.
InitBoth ==
    /\ ModernFresh
    /\ preventConcurrency = FALSE
    /\ bubble \in BOOLEAN
    /\ _disabled = "null"
    /\ onClick = "fn"
    /\ value \in Values
    /\ LegacyFresh
    /\ LegacyDefaults
    /\ TextDefaults
    /\ IconDefaults
    /\ NothingRead

\* One activation of both: the callback returns r to handleClick, and the
\* receiver of the classic action passes the same r to click's callback.
bothClick(r) ==
    /\ handleClick
    /\ ev'.ret = r
    /\ ~isDestroyed'
    /\ click(r)
    /\ UNCHANGED renderVars

\* The promise both were given fulfils.
bothFulfil(i) ==
    /\ promiseFulfils(i)
    /\ \E outcome \in DestroyedSetOutcomes : legacyResolves(i, outcome)
    /\ UNCHANGED renderVars

\* The promise both were given rejects.
bothReject(i) ==
    /\ promiseRejects(i)
    /\ \E outcome \in DestroyedSetOutcomes : legacyRejects(i, outcome)
    /\ UNCHANGED renderVars

\* The reset signal is asserted on both.
bothReset ==
    /\ resetState
    /\ resetObserver("true")
    /\ UNCHANGED renderVars

\* Both are torn down.
bothDestroy ==
    /\ destroy
    /\ legacyDestroy
    /\ UNCHANGED renderVars

NextBoth ==
    \/ \E r \in {"undefined", "thenable"} : bothClick(r)
    \/ \E i \in PromiseIds : bothFulfil(i)
    \/ \E i \in PromiseIds : bothReject(i)
    \/ bothReset
    \/ bothDestroy

SpecBoth == InitBoth /\ [][NextBoth]_vars

\* Promise i settles, one way or the other.
settles(i) ==
    /\ promiseFulfils(i) \/ promiseRejects(i)
    /\ UNCHANGED <<legacyVars, renderVars>>

\* The Glimmer component while it stays live: no teardown, by the framework or
\* by the callback.
NextLive ==
    \/ handleClick /\ ~isDestroyed' /\ UNCHANGED <<legacyVars, renderVars>>
    \/ \E i \in PromiseIds : settles(i)
    \/ resetState /\ UNCHANGED <<legacyVars, renderVars>>

\* Every promise the callback returned eventually settles.
SpecLive ==
    /\ Init
    /\ [][NextLive]_vars
    /\ \A i \in PromiseIds : WF_vars(settles(i))

----------------------------------------------------------------------------
\* Properties of the Glimmer component (Spec) and the classic one (SpecLegacy)

\* C1: with preventConcurrency = true and no disabled override, a click that
\* finds the button pending does not call onClick and leaves the state pending.
C1_SingleFlightGuard ==
    (/\ ev.op = "handleClick"
     /\ preventConcurrency
     /\ _disabled = "null"
     /\ ev.pre = "pending")
    => (~ev.invoked /\ state = "pending")

C1_Witness ==
    /\ ev.op = "handleClick"
    /\ onClick = "fn"
    /\ preventConcurrency
    /\ _disabled = "null"
    /\ ev.pre = "pending"
    /\ Outstanding # {}

\* C2: with preventConcurrency = true, a click never calls onClick while a
\* promise returned by an earlier click is still unsettled.
C2_NoCallbackWhileOutstanding ==
    [][(/\ ev'.op = "handleClick"
        /\ preventConcurrency
        /\ Outstanding # {})
       => ~ev'.invoked]_vars

\* C3: with preventConcurrency = false, overlapping clicks each call onClick,
\* and every settlement on a live component sets the state to its own outcome,
\* so the promise that settles last decides the final state, whichever was
\* dispatched first.
C3_LastSettlementWins ==
    /\ (/\ ~preventConcurrency
        /\ ev.op = "handleClick"
        /\ onClick = "fn") => ev.invoked
    /\ (/\ ~preventConcurrency
        /\ ev.op = "settle"
        /\ ev.id \in handlers
        /\ ~isDestroyed) => (state = ev.outcome /\ state = promises[ev.id])

\* The promise dispatched first settles last, with the other outcome.
C3_Witness ==
    /\ ~preventConcurrency
    /\ ~isDestroyed
    /\ ev.op = "settle"
    /\ ev.id = 1
    /\ handlers = {1, 2}
    /\ promises[1] = "rejected"
    /\ promises[2] = "fulfilled"
    /\ state = "rejected"

\* C4: every truthy assertion of reset sets textState to 'default', from any
\* state, also when the value assigned is the value reset already had.
C4_ResetYieldsDefault ==
    (legacyEv.op = "resetObserver" /\ isTruthy(legacyEv.arg))
    => textState = "default"

\* reset is asserted true while already true, on a pending button.
C4_Witness ==
    /\ legacyEv.op = "resetObserver"
    /\ legacyEv.arg = "true"
    /\ legacyEv.ret = "true"
    /\ legacyEv.pre = "pending"
    /\ textState = "default"

\* C5: once the component is destroyed, no settlement changes its state and
\* none raises an error.
C5_TeardownSafety ==
    [][/\ isDestroyed => state' = state
       /\ legacyDestroyed => (textState' = textState /\ fault' = fault)]_vars

\* C6: an admitted click whose callback returns a thenable leaves a live
\* component pending when handleClick returns; a click never moves the state
\* to fulfilled or rejected; the settlement of the promise of a pending, live
\* component moves it to fulfilled when it fulfils and to rejected when it
\* rejects.
C6_PendingThenSettled ==
    /\ (/\ ev.op = "handleClick"
        /\ ev.ret = "thenable"
        /\ ~isDestroyed) => state = "pending"
    /\ ev.op = "handleClick" => state \in {ev.pre, "pending"}
    /\ (/\ ev.op = "settle"
        /\ ev.pre = "pending"
        /\ ev.id \in handlers
        /\ ~isDestroyed) => state = ev.outcome

C6_Witness ==
    /\ ev.op = "settle"
    /\ ev.pre = "pending"
    /\ ev.id \in handlers
    /\ ~isDestroyed
    /\ ev.outcome = "rejected"
    /\ state = "rejected"

\* C7 as stated: a click made while __disabled is true does not call onClick
\* and does not change the state.
C7_DisabledGating ==
    [][(ev'.op = "handleClick" /\ __disabled)
       => (~ev'.invoked /\ state' = state)]_vars

\* C7 as amended: a click on a button with a callback is suppressed exactly
\* when state = pending and preventConcurrency, whatever _disabled is; a
\* suppressed click calls nothing and changes neither the state nor the
\* promises.
C7_ConcurrencyGating ==
    [][(ev'.op = "handleClick" /\ onClick = "fn")
       => /\ ev'.invoked <=> ~(isPending /\ preventConcurrency)
          /\ ~ev'.invoked => /\ state' = state
                             /\ promises' = promises
                             /\ handlers' = handlers]_vars

C7_Witness ==
    /\ ev.op = "handleClick"
    /\ onClick = "fn"
    /\ _disabled = "true"
    /\ preventConcurrency
    /\ ev.pre = "pending"
    /\ ~ev.invoked

\* C8 as stated: with _disabled = false, a click on a pending button with
\* preventConcurrency = true calls onClick with value.
C8_OverrideFalseAdmitsClick ==
    (/\ ev.op = "handleClick"
     /\ onClick = "fn"
     /\ _disabled = "false"
     /\ preventConcurrency
     /\ ev.pre = "pending")
    => (ev.invoked /\ ev.arg = value)

\* C8 as amended: a non-null _disabled decides __disabled in both directions,
\* but not the click: with _disabled = false, a click on a pending button with
\* preventConcurrency = true is still suppressed; whenever onClick is called
\* it is called with value.
C8_OverrideDecidesDisabledOnly ==
    /\ _disabled # "null" => (__disabled <=> _disabled = "true")
    /\ (/\ ev.op = "handleClick"
        /\ onClick = "fn"
        /\ _disabled = "false"
        /\ preventConcurrency
        /\ ev.pre = "pending") => (~ev.invoked /\ state = "pending")
    /\ (ev.op = "handleClick" /\ ev.invoked) => ev.arg = value

C8_Witness ==
    /\ ev.op = "handleClick"
    /\ onClick = "fn"
    /\ _disabled = "false"
    /\ preventConcurrency
    /\ ev.pre = "pending"
    /\ ~__disabled

\* C9: a click on a button with a callback, whether suppressed by the guard or
\* answered with a non-thenable or a thenable, stops the propagation of the
\* event exactly when bubble is false, whatever preventConcurrency is. (A
\* callback that throws leaves handleClick before that point: C10.)
C9_PropagationFollowsBubble ==
    (/\ ev.op = "handleClick"
     /\ onClick = "fn"
     /\ ~ev.threw)
    => (ev.stopped <=> ~bubble)

\* A click suppressed by the guard still stops the event.
C9_Witness ==
    /\ ev.op = "handleClick"
    /\ onClick = "fn"
    /\ ~ev.invoked
    /\ ~bubble
    /\ ev.stopped

\* C10: when the callback throws, the error leaves handleClick and the state
\* is the state the click found.
C10_SynchronousFault ==
    (ev.op = "handleClick" /\ ev.ret = "throws")
    => (ev.threw /\ state = ev.pre)

C10_Witness ==
    /\ ev.op = "handleClick"
    /\ ev.ret = "throws"
    /\ ev.threw
    /\ ev.pre = "fulfilled"
    /\ state = "fulfilled"

\* C11 as stated: the label read is the text argument of the current state
\* when that argument is passed, and defaultText when it is not.
C11_ResolveText ==
    LET cfg == [default |-> defaultText, pending |-> pendingText,
                fulfilled |-> fulfilledText, rejected |-> rejectedText]
    IN  label # "unread" =>
            label = IF cfg[state] # "undefined" THEN cfg[state] ELSE defaultText

\* C11 as amended: in bs-button.js the label read is the text argument of the
\* current state when that argument is passed and is not the empty string, and
\* defaultText otherwise; in the classic component it is the text argument of
\* the current state (resolvedText for 'resolved') when that argument is
\* passed, empty or not, and defaultText otherwise.
C11_ResolveTruthyText ==
    LET cfg == [default |-> defaultText, pending |-> pendingText,
                fulfilled |-> fulfilledText, rejected |-> rejectedText]
        legacyCfg == [default |-> defaultText, pending |-> pendingText,
                      resolved |-> resolvedText, rejected |-> rejectedText]
    IN  /\ label # "unread" =>
               label = IF cfg[state] \notin {"undefined", ""} THEN cfg[state]
                       ELSE defaultText
        /\ legacyLabel # "unread" =>
               legacyLabel = IF legacyCfg[textState] # "undefined"
                             THEN legacyCfg[textState]
                             ELSE defaultText

\* A rejected button without rejectedText shows defaultText.
C11_Witness ==
    /\ state = "rejected"
    /\ rejectedText = "undefined"
    /\ pendingText = "Saving"
    /\ defaultText = "Save"
    /\ label = "Save"

\* C12 as stated: an icon argument that is passed is the icon read, whatever
\* active is; without one the icon read is iconActive when active and
\* iconInactive when not.
C12_ResolveIcon ==
    /\ shownIcon # "unread" =>
           shownIcon = IF argsIcon \notin {"undefined", "null"} THEN argsIcon
                       ELSE IF active THEN iconActive ELSE iconInactive
    /\ legacyShownIcon # "unread" =>
           legacyShownIcon = IF active THEN iconActive ELSE iconInactive

\* C12 as amended: an icon argument that is passed and is not the empty string
\* is the icon read, whatever active is; otherwise the icon read is iconActive
\* when active and iconInactive when not.
C12_ResolveTruthyIcon ==
    /\ shownIcon # "unread" =>
           shownIcon = IF argsIcon \notin {"undefined", "null", ""} THEN argsIcon
                       ELSE IF active THEN iconActive ELSE iconInactive
    /\ legacyShownIcon # "unread" =>
           legacyShownIcon = IF active THEN iconActive ELSE iconInactive

\* The override wins over iconActive on an active button.
C12_Witness ==
    /\ argsIcon = "custom-icon"
    /\ active
    /\ iconActive = "star-filled"
    /\ shownIcon = "custom-icon"
    /\ legacyShownIcon = "star-filled"

\* C13: with toggle set every click flips active, and the icon is the one of
\* the flipped value; with toggle unset a click leaves active as it was.
C13_ToggleFlipsActive ==
    legacyEv.op = "click" =>
        /\ toggle => /\ active = (legacyEv.arg = "false")
                     /\ legacyIcon = IF legacyEv.arg = "false" THEN iconActive
                                     ELSE iconInactive
        /\ ~toggle => active = (legacyEv.arg = "true")

\* An inactive toggle button is clicked: it is active and shows iconActive.
C13_Witness ==
    /\ legacyEv.op = "click"
    /\ toggle
    /\ legacyEv.arg = "false"
    /\ active
    /\ iconActive = "star-filled"
    /\ iconInactive = "star-empty"
    /\ legacyIcon = "star-filled"

\* C14: the state starts as 'default' and is always one of the four states;
\* at most one of isPending, isFulfilled, isRejected holds, and isSettled holds
\* exactly in the states 'fulfilled' and 'rejected'.
C14_StateInvariant ==
    /\ ev.op = "none" => state = "default"
    /\ state \in States
    /\ ~(isPending /\ isFulfilled)
    /\ ~(isPending /\ isRejected)
    /\ ~(isFulfilled /\ isRejected)
    /\ (isPending \/ isFulfilled \/ isRejected) <=> state # "default"
    /\ isSettled <=> state \in {"fulfilled", "rejected"}

C14_Witness ==
    /\ ev.op = "settle"
    /\ state = "rejected"
    /\ isRejected
    /\ isSettled
    /\ ~isPending

\* C15: a click whose callback returns a value that is absent or has no
\* callable `then` leaves the state as it found it and registers nothing.
C15_NonThenableKeepsState ==
    (/\ ev.op = "handleClick"
     /\ ev.invoked
     /\ ev.ret \in {"undefined", "object"})
    => (state = ev.pre /\ ev.id = 0 /\ handlers \subseteq {i \in PromiseIds : promises[i] # "none"})

C15_Witness ==
    /\ ev.op = "handleClick"
    /\ ev.invoked
    /\ ev.ret = "object"
    /\ ev.pre = "fulfilled"
    /\ state = "fulfilled"

\* C16: a promise that settles after resetState returned the state to
\* 'default' still sets the state of a live component to its outcome.
C16_ResetDoesNotCancel ==
    (/\ ev.op = "settle"
     /\ ev.pre = "default"
     /\ ev.id \in handlers
     /\ ~isDestroyed)
    => (state = ev.outcome /\ state # "default")

C16_Witness ==
    /\ ev.op = "settle"
    /\ ev.pre = "default"
    /\ ev.id \in handlers
    /\ ~isDestroyed
    /\ ev.outcome = "fulfilled"
    /\ state = "fulfilled"

\* C19: when the component is destroyed by the time the callback returns its
\* promise, the click leaves the state as it found it and registers no
\* handler, and the settlement of a promise without handlers never changes
\* the state.
C19_TeardownDuringDispatch ==
    /\ (/\ ev.op = "handleClick"
        /\ ev.ret = "thenable"
        /\ isDestroyed) => (state = ev.pre /\ ev.id \notin handlers)
    /\ (/\ ev.op = "settle"
        /\ ev.id \notin handlers) => state = ev.pre

\* The component was fulfilled, then destroyed during a second click; the
\* promise of that click rejects.
C19_Witness ==
    /\ ev.op = "settle"
    /\ ev.id \notin handlers
    /\ isDestroyed
    /\ ev.outcome = "rejected"
    /\ state = "fulfilled"

\* C20: a click on a button without onClick (null or undefined) calls
\* nothing, leaves the state alone and does not stop the event, even when
\* bubble is false.
C20_MissingCallback ==
    (ev.op = "handleClick" /\ onClick \in {"null", "undefined"})
    => (~ev.invoked /\ ~ev.stopped /\ state = ev.pre)

C20_Witness ==
    /\ ev.op = "handleClick"
    /\ onClick = "undefined"
    /\ ~bubble
    /\ ~ev.stopped
    /\ ~ev.invoked

\* C18: on a component that stays live, with preventConcurrency = true and
\* every returned promise eventually settling, a pending button eventually
\* is not pending.
C18_PendingEnds == (preventConcurrency /\ isPending) ~> ~isPending

C18_Witness ==
    /\ preventConcurrency
    /\ ev.op = "settle"
    /\ ev.pre = "pending"
    /\ ev.id \in handlers
    /\ ~isPending

\* C17: driven by the same activations, settlements, resets and teardown, the
\* classic component and the Glimmer component are always in the same state
\* ('resolved' being the classic name of 'fulfilled').
C17_SameStates ==
    state = IF textState = "resolved" THEN "fulfilled" ELSE textState

====
